---------------------------- MODULE Spec2Model ----------------------------
(***************************************************************************)
(* Model of src/src/models/mod.rs of the notion crate: the Object union,   *)
(* its tagged encoding, ListResponse<Object> and its narrowing operations, *)
(* Properties with its ordered encoding and title lookup, and the          *)
(* equality and hash of Page and Database as seen by a hash set.           *)
(***************************************************************************)
EXTENDS Integers, Sequences, FiniteSets, TLC

VARIABLES
    pc,            \* position of the scenario being run
    wireList,      \* narrowing: the list payload received from the transport
    response,      \* narrowing: the decoded ListResponse<Object>
    narrowOp,      \* narrowing: name of the narrowing operation applied
    narrowed,      \* narrowing: the Result / value the operation returned
    object,        \* codec: the Object value being encoded
    wire,          \* codec: the payload on the wire
    tampered,      \* codec: whether the payload was altered after encoding
    decoded,       \* codec: the result of decoding the payload
    properties,    \* props: the HashMap<String, PropertyValue> of a Properties
    iterOrder,     \* props: the order in which that HashMap instance iterates
    encodedKeys,   \* props: key sequence emitted by the last encoding
    titles,        \* props: results of the last title lookups
    pageSet,       \* identity: buckets of a HashSet<Page>
    databaseSet    \* identity: buckets of a HashSet<Database>

vars == <<pc, wireList, response, narrowOp, narrowed, object, wire, tampered,
          decoded, properties, iterOrder, encodedKeys, titles, pageSet,
          databaseSet>>

narrowVars == <<wireList, response, narrowOp, narrowed>>
codecVars == <<object, wire, tampered, decoded>>
propsVars == <<properties, iterOrder, encodedKeys, titles>>
identityVars == <<pageSet, databaseSet>>

-----------------------------------------------------------------------------
(* Bounds of the model. *)

MaxId == 2
MaxTime == 1
MaxLen == 3
MaxNested == 2
MaxSetSize == 2

Ids == 1..MaxId
\* OffsetDateTime values, as instants
Times == {12 * t : t \in 0..MaxTime}

-----------------------------------------------------------------------------
(* Option<T> and Result<T, E> *)

None == <<>>
Some(x) == <<x>>
IsSome(o) == o # <<>>
Unwrap(o) == o[1]

Ok(v) == [ok |-> TRUE, value |-> v]
Err(e) == [ok |-> FALSE, error |-> e]

(* JSON values that stand where a field may also be null *)
Null == [json |-> "null"]
JString(s) == [json |-> "string", v |-> s]
JArray(s) == [json |-> "array", v |-> s]

\* the restriction of a JSON object to some of its keys
Restrict(f, keys) == [k \in keys |-> f[k]]
HasKeys(p, keys) == keys \subseteq DOMAIN p

-----------------------------------------------------------------------------
(* Strings that are ordered or concatenated are sequences of bytes. *)

PropertyNames == {<<1>>, <<1, 2>>, <<2>>}

\* Ord for String: lexicographic on the bytes
KeyLess(a, b) ==
    \/ /\ Len(a) < Len(b)
       /\ \A i \in 1..Len(a) : a[i] = b[i]
    \/ \E i \in 1..Len(a) :
          /\ i <= Len(b)
          /\ a[i] < b[i]
          /\ \A j \in 1..(i - 1) : a[j] = b[j]

RECURSIVE SumBytes(_)
SumBytes(k) == IF k = <<>> THEN 0 ELSE Head(k) + SumBytes(Tail(k))

\* a HashMap's bucket of a key under the map's hasher seed
KeyHash(k, seed) == (SumBytes(k) * (seed + 2) + Len(k)) % 5

HashSeeds == {0, 1}

RECURSIVE HashIterFrom(_, _)
HashIterFrom(keys, seed) ==
    IF keys = {} THEN <<>>
    ELSE LET first == CHOOSE k \in keys :
                        \A o \in keys \ {k} :
                            \/ KeyHash(k, seed) < KeyHash(o, seed)
                            \/ /\ KeyHash(k, seed) = KeyHash(o, seed)
                               /\ KeyLess(k, o)
         IN  <<first>> \o HashIterFrom(keys \ {first}, seed)

\* the order in which a HashMap with hasher seed `seed` iterates its keys
HashIter(map, seed) == HashIterFrom(DOMAIN map, seed)

\* all orders a HashMap holding `keys` may iterate in
IterOrders(keys) ==
    {s \in [1..Cardinality(keys) -> keys] :
        \A i, j \in 1..Len(s) : i # j => s[i] # s[j]}

-----------------------------------------------------------------------------
(* Types of the sibling modules, as far as this module uses them. *)

RichText(s) == [plain_text |-> s]
plain_text(rt) == rt.plain_text

RichTexts ==
    {<<>>, <<RichText(<<1, 2>>)>>, <<RichText(<<1>>), RichText(<<2>>)>>,
     <<RichText(<<3>>)>>}

PropertyValueTitle(t) == [type |-> "title", title |-> t]
PropertyValueNumber == [type |-> "number", number |-> 1]
PropertyValues == {PropertyValueTitle(t) : t \in RichTexts} \cup {PropertyValueNumber}

PropertyConfigurations == {[type |-> "title"], [type |-> "number"]}

Blocks == [id : Ids, type : {"paragraph"}]
Users == [id : {1}, type : {"person"}]
ErrorResponses == [status : {400}, code : {"validation_error"}]
PropertyItems == [id : {1}, type : {"number"}]
FileOrEmojiObjects == {[type |-> "emoji", emoji |-> 1]}
PagingCursors == {"c1"}

EmptyMap == [k \in {} |-> 0]

-----------------------------------------------------------------------------
(* Parent, Properties, Database, Page, ListResponse, Object *)

Parents ==
    {[kind |-> "Database", database_id |-> 1], [kind |-> "Page", page_id |-> 1],
     [kind |-> "Block", block_id |-> 1], [kind |-> "Workspace"]}

Properties(map) == [properties |-> map]

PropertyMaps ==
    {EmptyMap,
     <<1>> :> PropertyValueTitle(<<RichText(<<1, 2>>)>>),
     (<<2>> :> PropertyValueNumber) @@ (<<1>> :> PropertyValueTitle(<<RichText(<<3>>)>>))}

ConfigurationMaps ==
    {EmptyMap,
     (<<2>> :> [type |-> "number"]) @@ (<<1, 2>> :> [type |-> "title"])
        @@ (<<1>> :> [type |-> "number"])}

Options(S) == {None} \cup {Some(x) : x \in S}

Databases ==
    [id : Ids, created_time : {0}, last_edited_time : Times,
     title : {<<>>, <<RichText(<<1>>), RichText(<<2>>)>>},
     properties : ConfigurationMaps]

Pages ==
    [id : Ids, created_time : {0}, last_edited_time : Times, archived : BOOLEAN,
     properties : {Properties(m) : m \in PropertyMaps}, parent : Parents,
     icon : Options(FileOrEmojiObjects), url : Options({"https://n/1"}),
     blocks : Options({<<>>, <<[id |-> 1, type |-> "paragraph"]>>})]

ListResponse(results, next_cursor, has_more) ==
    [results |-> results, next_cursor |-> next_cursor, has_more |-> has_more]

ObjectBlock(b) == [kind |-> "Block", block |-> b]
ObjectDatabase(d) == [kind |-> "Database", database |-> d]
ObjectPage(p) == [kind |-> "Page", page |-> p]
ObjectList(l) == [kind |-> "List", list |-> l]
ObjectUser(u) == [kind |-> "User", user |-> u]
ObjectError(e) == [kind |-> "Error", error |-> e]
ObjectPropertyItem(i) == [kind |-> "PropertyItem", property_item |-> i]

is_database(o) == o.kind = "Database"

\* the entity a list element of the model stands for, one per id
SampleDatabase(i) ==
    [id |-> i, created_time |-> 0, last_edited_time |-> 12, title |-> <<>>,
     properties |-> EmptyMap]
SamplePage(i) ==
    [id |-> i, created_time |-> 0, last_edited_time |-> 12, archived |-> FALSE,
     properties |-> Properties(EmptyMap), parent |-> [kind |-> "Workspace"],
     icon |-> None, url |-> None, blocks |-> None]

\* the objects a list of the model may hold: every variant of Object
Elements ==
    {ObjectDatabase(SampleDatabase(i)) : i \in {1, 2}}
        \cup {ObjectPage(SamplePage(i)) : i \in {1, 2}}
        \cup {ObjectBlock([id |-> i, type |-> "paragraph"]) : i \in {1, 2}}
        \cup {ObjectList(ListResponse(<<>>, None, FALSE))}
        \cup {ObjectUser(u) : u \in Users}
        \cup {ObjectError(e) : e \in ErrorResponses}
        \cup {ObjectPropertyItem(i) : i \in PropertyItems}

SeqsUpTo(S, n) == UNION {[1..k -> S] : k \in 0..n}

ListResponses(n) ==
    {ListResponse(r, c, h) :
        r \in SeqsUpTo(Elements, n), c \in Options(PagingCursors), h \in BOOLEAN}

-----------------------------------------------------------------------------
(* Encoding (Serialize) *)

\* #[serde(with = "time::serde::iso8601")]: the instant as text
Iso8601Format(t) == <<t \div 10, t % 10>>

Iso8601Parse(s) ==
    IF Len(s) = 2 /\ \A i \in 1..2 : s[i] \in 0..9
    THEN Ok(10 * s[1] + s[2])
    ELSE Err("invalid timestamp")

\* BTreeMap::insert of a key into the keys already held, kept ascending
RECURSIVE BTreeInsert(_, _)
BTreeInsert(keys, k) ==
    IF keys = <<>> THEN <<k>>
    ELSE IF k = Head(keys) THEN keys
    ELSE IF KeyLess(k, Head(keys)) THEN <<k>> \o keys
    ELSE <<Head(keys)>> \o BTreeInsert(Tail(keys), k)

\* value.iter().collect::<BTreeMap<_, _>>(), for `value` iterating in `order`
RECURSIVE BTreeCollect(_)
BTreeCollect(order) ==
    IF order = <<>> THEN <<>>
    ELSE BTreeInsert(BTreeCollect(SubSeq(order, 1, Len(order) - 1)),
                     order[Len(order)])

\* a map emitted entry by entry, in the order of `keys`
SerializeMap(value, keys) == [i \in 1..Len(keys) |-> <<keys[i], value[keys[i]]>>]

\* a mutant: the HashMap is serialized as it iterates
ordered_map_unsorted(value, order) == SerializeMap(value, order)

ordered_map(value, order) == SerializeMap(value, BTreeCollect(order))

EncodeParent(p) ==
    CASE p.kind = "Database" ->
            [type |-> "database_id", database_id |-> p.database_id]
      [] p.kind = "Page" -> [type |-> "page_id", page_id |-> p.page_id]
      [] p.kind = "Block" -> [type |-> "block_id", block_id |-> p.block_id]
      [] p.kind = "Workspace" -> [type |-> "workspace"]

EncodeDatabase(d, seed) ==
    [id |-> d.id,
     created_time |-> Iso8601Format(d.created_time),
     last_edited_time |-> Iso8601Format(d.last_edited_time),
     title |-> d.title,
     properties |-> ordered_map(d.properties, HashIter(d.properties, seed))]

\* a mutant: url is never emitted
EncodePage_url_skipped(p, seed) ==
    [id |-> p.id,
     created_time |-> Iso8601Format(p.created_time),
     last_edited_time |-> Iso8601Format(p.last_edited_time),
     archived |-> p.archived,
     properties |-> ordered_map(p.properties.properties,
                                HashIter(p.properties.properties, seed)),
     parent |-> EncodeParent(p.parent)]
    @@ (IF IsSome(p.icon) THEN [icon |-> Unwrap(p.icon)] ELSE EmptyMap)
    @@ (IF IsSome(p.blocks) THEN [blocks |-> JArray(Unwrap(p.blocks))] ELSE EmptyMap)

EncodePage(p, seed) ==
    [id |-> p.id,
     created_time |-> Iso8601Format(p.created_time),
     last_edited_time |-> Iso8601Format(p.last_edited_time),
     archived |-> p.archived,
     properties |-> ordered_map(p.properties.properties,
                                HashIter(p.properties.properties, seed)),
     parent |-> EncodeParent(p.parent)]
    @@ (IF IsSome(p.icon) THEN [icon |-> Unwrap(p.icon)] ELSE EmptyMap)
    @@ (IF IsSome(p.url) THEN [url |-> JString(Unwrap(p.url))] ELSE EmptyMap)
    @@ (IF IsSome(p.blocks) THEN [blocks |-> JArray(Unwrap(p.blocks))] ELSE EmptyMap)

RECURSIVE EncodeObject(_, _)

EncodeListResponse(l, seed) ==
    [results |-> [i \in 1..Len(l.results) |-> EncodeObject(l.results[i], seed)],
     next_cursor |-> IF IsSome(l.next_cursor)
                     THEN JString(Unwrap(l.next_cursor)) ELSE Null,
     has_more |-> l.has_more]

\* #[serde(tag = "object")], #[serde(rename_all = "snake_case")], and each
\* variant's fields flattened beside the tag
EncodeObject(o, seed) ==
    CASE o.kind = "Block" -> [object |-> "block"] @@ o.block
      [] o.kind = "Database" ->
            [object |-> "database"] @@ EncodeDatabase(o.database, seed)
      [] o.kind = "Page" -> [object |-> "page"] @@ EncodePage(o.page, seed)
      [] o.kind = "List" -> [object |-> "list"] @@ EncodeListResponse(o.list, seed)
      [] o.kind = "User" -> [object |-> "user"] @@ o.user
      [] o.kind = "Error" -> [object |-> "error"] @@ o.error
      [] o.kind = "PropertyItem" ->
            [object |-> "property_item"] @@ o.property_item

-----------------------------------------------------------------------------
(* Decoding (Deserialize) *)

\* an Option field: a missing key and null both decode to None
DecodeOption(w, key) ==
    IF key \in DOMAIN w /\ w[key] # Null THEN Some(w[key]) ELSE None

\* a JSON object read into a HashMap: a repeated key keeps its last value
MapOfEntries(entries) ==
    [k \in {entries[i][1] : i \in DOMAIN entries} |->
        entries[CHOOSE i \in DOMAIN entries :
                    /\ entries[i][1] = k
                    /\ \A j \in DOMAIN entries : j > i => entries[j][1] # k][2]]

DecodeParent(w) ==
    IF "type" \notin DOMAIN w THEN Err("missing field type")
    ELSE CASE w.type = "database_id" /\ "database_id" \in DOMAIN w ->
                Ok([kind |-> "Database", database_id |-> w.database_id])
           [] w.type = "page_id" /\ "page_id" \in DOMAIN w ->
                Ok([kind |-> "Page", page_id |-> w.page_id])
           [] w.type = "block_id" /\ "block_id" \in DOMAIN w ->
                Ok([kind |-> "Block", block_id |-> w.block_id])
           [] w.type = "workspace" -> Ok([kind |-> "Workspace"])
           [] OTHER -> Err("invalid parent")

DecodeDatabase(w) ==
    IF ~HasKeys(w, {"id", "created_time", "last_edited_time", "title", "properties"})
    THEN Err("missing field")
    ELSE LET created == Iso8601Parse(w.created_time)
             edited == Iso8601Parse(w.last_edited_time)
         IN  IF ~created.ok THEN created
             ELSE IF ~edited.ok THEN edited
             ELSE Ok([id |-> w.id,
                      created_time |-> created.value,
                      last_edited_time |-> edited.value,
                      title |-> w.title,
                      properties |-> MapOfEntries(w.properties)])

DecodePage(w) ==
    IF ~HasKeys(w, {"id", "created_time", "last_edited_time", "archived",
                    "properties", "parent"})
    THEN Err("missing field")
    ELSE LET created == Iso8601Parse(w.created_time)
             edited == Iso8601Parse(w.last_edited_time)
             parent == DecodeParent(w.parent)
             url == DecodeOption(w, "url")
             blocks == DecodeOption(w, "blocks")
         IN  IF ~created.ok THEN created
             ELSE IF ~edited.ok THEN edited
             ELSE IF ~parent.ok THEN parent
             ELSE Ok([id |-> w.id,
                      created_time |-> created.value,
                      last_edited_time |-> edited.value,
                      archived |-> w.archived,
                      properties |-> Properties(MapOfEntries(w.properties)),
                      parent |-> parent.value,
                      icon |-> DecodeOption(w, "icon"),
                      url |-> IF IsSome(url) THEN Some(Unwrap(url).v) ELSE None,
                      blocks |-> IF IsSome(blocks)
                                 THEN Some(Unwrap(blocks).v) ELSE None])

\* a struct of a sibling module, read from the keys it declares
DecodeStruct(w, keys) ==
    IF HasKeys(w, keys) THEN Ok(Restrict(w, keys)) ELSE Err("missing field")

ObjectTags ==
    {"block", "database", "page", "list", "user", "error", "property_item"}

RECURSIVE DecodeObject(_)

DecodeListResponse(w) ==
    IF ~HasKeys(w, {"results", "has_more"}) THEN Err("missing field")
    ELSE LET items == [i \in DOMAIN w.results |-> DecodeObject(w.results[i])]
             cursor == DecodeOption(w, "next_cursor")
         IN  IF \E i \in DOMAIN items : ~items[i].ok
             THEN items[CHOOSE i \in DOMAIN items :
                            /\ ~items[i].ok
                            /\ \A j \in 1..(i - 1) : items[j].ok]
             ELSE Ok(ListResponse([i \in DOMAIN items |-> items[i].value],
                                  IF IsSome(cursor)
                                  THEN Some(Unwrap(cursor).v) ELSE None,
                                  w.has_more))

\* the variant a tag selects, decoded from the other keys of the payload
DecodeVariant(tag, w) ==
    CASE tag = "block" ->
            LET r == DecodeStruct(w, {"id", "type"})
            IN  IF r.ok THEN Ok(ObjectBlock(r.value)) ELSE r
      [] tag = "database" ->
            LET r == DecodeDatabase(w)
            IN  IF r.ok THEN Ok(ObjectDatabase(r.value)) ELSE r
      [] tag = "page" ->
            LET r == DecodePage(w)
            IN  IF r.ok THEN Ok(ObjectPage(r.value)) ELSE r
      [] tag = "list" ->
            LET r == DecodeListResponse(w)
            IN  IF r.ok THEN Ok(ObjectList(r.value)) ELSE r
      [] tag = "user" ->
            LET r == DecodeStruct(w, {"id", "type"})
            IN  IF r.ok THEN Ok(ObjectUser(r.value)) ELSE r
      [] tag = "error" ->
            LET r == DecodeStruct(w, {"status", "code"})
            IN  IF r.ok THEN Ok(ObjectError(r.value)) ELSE r
      [] tag = "property_item" ->
            LET r == DecodeStruct(w, {"id", "type"})
            IN  IF r.ok THEN Ok(ObjectPropertyItem(r.value)) ELSE r

\* a mutant: an unrecognized tag falls back to the first variant
DecodeObject_fallback(p) ==
    IF "object" \notin DOMAIN p THEN Err("missing field object")
    ELSE IF p.object \notin ObjectTags
    THEN DecodeVariant("block", Restrict(p, DOMAIN p \ {"object"}))
    ELSE DecodeVariant(p.object, Restrict(p, DOMAIN p \ {"object"}))

DecodeObject(p) ==
    IF "object" \notin DOMAIN p THEN Err("missing field object")
    ELSE IF p.object \notin ObjectTags THEN Err("unknown variant")
    ELSE DecodeVariant(p.object, Restrict(p, DOMAIN p \ {"object"}))

-----------------------------------------------------------------------------
(* impl ListResponse<Object> *)

UnexpectedResponse(o) == [type |-> "UnexpectedResponse", response |-> o]

\* the closures mapped over the results by expect_databases / _pages / _blocks
MatchDatabase(o) ==
    IF o.kind = "Database" THEN Ok(o.database) ELSE Err(UnexpectedResponse(o))
MatchPage(o) ==
    IF o.kind = "Page" THEN Ok(o.page) ELSE Err(UnexpectedResponse(o))
MatchBlock(o) ==
    IF o.kind = "Block" THEN Ok(o.block) ELSE Err(UnexpectedResponse(o))

\* a mutant: every item is visited and the last error is the one reported
RECURSIVE CollectResult_last_error(_)
CollectResult_last_error(items) ==
    IF items = <<>> THEN Ok(<<>>)
    ELSE LET rest == CollectResult_last_error(Tail(items))
         IN  IF ~rest.ok THEN rest
             ELSE IF ~Head(items).ok THEN Head(items)
             ELSE Ok(<<Head(items).value>> \o rest.value)

\* collect::<Result<Vec<_>, _>>(): the items in order, up to the first Err
RECURSIVE CollectResult(_)
CollectResult(items) ==
    IF items = <<>> THEN Ok(<<>>)
    ELSE IF ~Head(items).ok THEN Head(items)
    ELSE LET rest == CollectResult(Tail(items))
         IN  IF ~rest.ok THEN rest
             ELSE Ok(<<Head(items).value>> \o rest.value)

\* filter_map(|object| match object { Database { database } => Some, _ => None })
RECURSIVE FilterMapDatabases(_)
FilterMapDatabases(results) ==
    IF results = <<>> THEN <<>>
    ELSE IF Head(results).kind = "Database"
    THEN <<Head(results).database>> \o FilterMapDatabases(Tail(results))
    ELSE FilterMapDatabases(Tail(results))

\* a mutant: has_more is cleared when elements were dropped
only_databases_recounted(self) ==
    ListResponse(FilterMapDatabases(self.results), self.next_cursor,
                 self.has_more
                    /\ Len(FilterMapDatabases(self.results)) = Len(self.results))

only_databases(self) ==
    ListResponse(FilterMapDatabases(self.results), self.next_cursor, self.has_more)

expect_databases(self) ==
    LET databases ==
            CollectResult([i \in DOMAIN self.results |-> MatchDatabase(self.results[i])])
    IN  IF ~databases.ok THEN databases
        ELSE Ok(ListResponse(databases.value, self.next_cursor, self.has_more))

\* a mutant: the cursor is not carried over
expect_pages_cursor_lost(self) ==
    LET items ==
            CollectResult([i \in DOMAIN self.results |-> MatchPage(self.results[i])])
    IN  IF ~items.ok THEN items
        ELSE Ok(ListResponse(items.value, None, self.has_more))

expect_pages(self) ==
    LET items ==
            CollectResult([i \in DOMAIN self.results |-> MatchPage(self.results[i])])
    IN  IF ~items.ok THEN items
        ELSE Ok(ListResponse(items.value, self.next_cursor, self.has_more))

\* a mutant: has_more is cleared, the cursor kept
expect_blocks_no_more(self) ==
    LET items ==
            CollectResult([i \in DOMAIN self.results |-> MatchBlock(self.results[i])])
    IN  IF ~items.ok THEN items
        ELSE Ok(ListResponse(items.value, self.next_cursor, FALSE))

expect_blocks(self) ==
    LET items ==
            CollectResult([i \in DOMAIN self.results |-> MatchBlock(self.results[i])])
    IN  IF ~items.ok THEN items
        ELSE Ok(ListResponse(items.value, self.next_cursor, self.has_more))

-----------------------------------------------------------------------------
(* Narrowing: a list payload is received, decoded and narrowed. *)

Idle == "idle"

IdleNarrow ==
    /\ wireList = Idle /\ response = Idle /\ narrowOp = Idle /\ narrowed = Idle
IdleCodec == /\ object = Idle /\ wire = Idle /\ tampered = FALSE /\ decoded = Idle
IdleProps ==
    /\ properties = Idle /\ iterOrder = Idle /\ encodedKeys = Idle /\ titles = Idle
IdleIdentity == /\ pageSet = Idle /\ databaseSet = Idle

InitNarrow ==
    /\ pc = "received"
    /\ wireList \in {EncodeListResponse(l, 0) : l \in ListResponses(MaxLen)}
    /\ response = Idle /\ narrowOp = Idle /\ narrowed = Idle
    /\ IdleCodec /\ IdleProps /\ IdleIdentity

DecodeList ==
    /\ pc = "received"
    /\ LET r == DecodeListResponse(wireList)
       IN  IF r.ok
           THEN /\ response' = r.value
                /\ pc' = "decoded"
           ELSE /\ response' = r
                /\ pc' = "decode_error"
    /\ UNCHANGED <<wireList, narrowOp, narrowed, codecVars, propsVars, identityVars>>

OnlyDatabases ==
    /\ pc = "decoded"
    /\ narrowed' = only_databases(response)
    /\ narrowOp' = "only_databases"
    /\ pc' = "narrowed"
    /\ UNCHANGED <<wireList, response, codecVars, propsVars, identityVars>>

ExpectDatabases ==
    /\ pc = "decoded"
    /\ narrowed' = expect_databases(response)
    /\ narrowOp' = "expect_databases"
    /\ pc' = "narrowed"
    /\ UNCHANGED <<wireList, response, codecVars, propsVars, identityVars>>

ExpectPages ==
    /\ pc = "decoded"
    /\ narrowed' = expect_pages(response)
    /\ narrowOp' = "expect_pages"
    /\ pc' = "narrowed"
    /\ UNCHANGED <<wireList, response, codecVars, propsVars, identityVars>>

ExpectBlocks ==
    /\ pc = "decoded"
    /\ narrowed' = expect_blocks(response)
    /\ narrowOp' = "expect_blocks"
    /\ pc' = "narrowed"
    /\ UNCHANGED <<wireList, response, codecVars, propsVars, identityVars>>

NextNarrow ==
    \/ DecodeList
    \/ OnlyDatabases
    \/ ExpectDatabases
    \/ ExpectPages
    \/ ExpectBlocks

SpecNarrow == InitNarrow /\ [][NextNarrow]_vars

-----------------------------------------------------------------------------
(* Properties of narrowing *)

ExpectOps == {"expect_databases", "expect_pages", "expect_blocks"}

TargetKind(op) ==
    CASE op = "expect_databases" -> "Database"
      [] op = "expect_pages" -> "Page"
      [] op = "expect_blocks" -> "Block"
      [] op = "only_databases" -> "Database"

Inner(o) ==
    CASE o.kind = "Database" -> o.database
      [] o.kind = "Page" -> o.page
      [] o.kind = "Block" -> o.block

Kinds(results) == [i \in DOMAIN results |-> results[i].kind]

AllOfKind(results, kind) == \A i \in DOMAIN results : results[i].kind = kind

FirstMismatch(results, kind) ==
    results[CHOOSE i \in DOMAIN results :
                /\ results[i].kind # kind
                /\ \A j \in 1..(i - 1) : results[j].kind = kind]

\* C1: when some element of results is not of the target kind, expect_databases,
\* expect_pages and expect_blocks return Error::UnexpectedResponse carrying the
\* first (lowest-index) such element, and return no ListResponse.
C1_StrictAllOrNothing ==
    (pc = "narrowed" /\ narrowOp \in ExpectOps
        /\ ~AllOfKind(response.results, TargetKind(narrowOp)))
    => /\ ~narrowed.ok
       /\ narrowed = Err(UnexpectedResponse(
                        FirstMismatch(response.results, TargetKind(narrowOp))))

C1_Witness ==
    /\ pc = "narrowed"
    /\ narrowOp = "expect_pages"
    /\ Kinds(response.results) = <<"Page", "Page", "Database">>
    /\ ~narrowed.ok
    /\ narrowed.error.response = response.results[3]

\* C2: expect_databases, expect_pages and expect_blocks succeed exactly when every
\* element is of the target kind (the empty sequence included), and then return
\* the elements unwrapped in the same order with next_cursor and has_more of the
\* input.
C2_StrictSuccess ==
    (pc = "narrowed" /\ narrowOp \in ExpectOps)
    => /\ narrowed.ok <=> AllOfKind(response.results, TargetKind(narrowOp))
       /\ narrowed.ok =>
            /\ Len(narrowed.value.results) = Len(response.results)
            /\ \A i \in DOMAIN response.results :
                    narrowed.value.results[i] = Inner(response.results[i])
            /\ narrowed.value.next_cursor = response.next_cursor
            /\ narrowed.value.has_more = response.has_more

C2_Witness ==
    /\ pc = "narrowed"
    /\ narrowOp = "expect_blocks"
    /\ narrowed.ok
    /\ Len(narrowed.value.results) = 2
    /\ narrowed.value.results[1] # narrowed.value.results[2]
    /\ IsSome(narrowed.value.next_cursor)
    /\ narrowed.value.has_more

DatabasesOf(results) ==
    LET kept == SelectSeq(results, is_database)
    IN  [i \in DOMAIN kept |-> kept[i].database]

\* C3: only_databases never fails; it returns exactly the Database elements of
\* the input in their original relative order, every other element dropped, with
\* has_more and next_cursor unchanged even when elements were dropped.
C3_PermissiveNarrowing ==
    (pc = "narrowed" /\ narrowOp = "only_databases")
    => /\ narrowed.results = DatabasesOf(response.results)
       /\ narrowed.has_more = response.has_more
       /\ narrowed.next_cursor = response.next_cursor

C3_Witness ==
    /\ pc = "narrowed"
    /\ narrowOp = "only_databases"
    /\ Kinds(response.results) = <<"Database", "Page", "Database">>
    /\ response.results[1] # response.results[3]
    /\ response.has_more
    /\ IsSome(response.next_cursor)
    /\ narrowed.results = <<response.results[1].database, response.results[3].database>>

CursorConsistent(l) == ~l.has_more => l.next_cursor = None

\* C7 as stated: every ListResponse decoded from a list payload or returned by a
\* narrowing operation has next_cursor absent when has_more is false.
C7_EveryResponseConsistent ==
    /\ pc \in {"decoded", "narrowed"} => CursorConsistent(response)
    /\ (pc = "narrowed" /\ narrowOp = "only_databases") => CursorConsistent(narrowed)
    /\ (pc = "narrowed" /\ narrowOp \in ExpectOps /\ narrowed.ok)
            => CursorConsistent(narrowed.value)

\* C7 amended: decoding keeps has_more and next_cursor as the payload gives them,
\* and a narrowing operation returns a ListResponse with next_cursor absent when
\* has_more is false whenever its input was such a ListResponse.
C7_ConsistencyPreserved ==
    /\ pc \in {"decoded", "narrowed"} =>
            /\ response.has_more = wireList.has_more
            /\ (response.next_cursor = None) <=> (wireList.next_cursor = Null)
    /\ (pc = "narrowed" /\ CursorConsistent(response)) =>
            /\ narrowOp = "only_databases" => CursorConsistent(narrowed)
            /\ (narrowOp \in ExpectOps /\ narrowed.ok)
                    => CursorConsistent(narrowed.value)

C7_Witness ==
    /\ pc = "narrowed"
    /\ narrowOp = "expect_blocks"
    /\ ~response.has_more
    /\ response.next_cursor = None
    /\ wireList.next_cursor = Null
    /\ narrowed.ok
    /\ Len(narrowed.value.results) > 0
    /\ CursorConsistent(narrowed.value)

-----------------------------------------------------------------------------
(* Codec: an Object is encoded, the payload possibly replaced by a foreign   *)
(* one on the way, and decoded.                                              *)

CodecObjects ==
    {ObjectBlock(b) : b \in Blocks}
        \cup {ObjectDatabase(d) : d \in Databases}
        \cup {ObjectPage(p) : p \in Pages}
        \cup {ObjectList(l) : l \in ListResponses(MaxNested)}
        \cup {ObjectUser(u) : u \in Users}
        \cup {ObjectError(e) : e \in ErrorResponses}
        \cup {ObjectPropertyItem(i) : i \in PropertyItems}

\* the discriminator values a payload may carry
PayloadTags == ObjectTags \cup {"Page", "comment"}

InitCodec ==
    /\ pc = "built"
    /\ object \in CodecObjects
    /\ wire = Idle /\ tampered = FALSE /\ decoded = Idle
    /\ IdleNarrow /\ IdleProps /\ IdleIdentity

Encode ==
    /\ pc = "built"
    /\ \E seed \in HashSeeds : wire' = EncodeObject(object, seed)
    /\ pc' = "encoded"
    /\ UNCHANGED <<object, tampered, decoded, narrowVars, propsVars, identityVars>>

\* the transport delivers a payload with another discriminator
PayloadRetagged ==
    /\ pc = "encoded"
    /\ \E tag \in PayloadTags \ {wire.object} : wire' = [wire EXCEPT !.object = tag]
    /\ tampered' = TRUE
    /\ pc' = "foreign"
    /\ UNCHANGED <<object, decoded, narrowVars, propsVars, identityVars>>

\* the transport delivers a payload lacking a key
PayloadKeyMissing ==
    /\ pc = "encoded"
    /\ \E k \in DOMAIN wire : wire' = Restrict(wire, DOMAIN wire \ {k})
    /\ tampered' = TRUE
    /\ pc' = "foreign"
    /\ UNCHANGED <<object, decoded, narrowVars, propsVars, identityVars>>

Decode ==
    /\ pc \in {"encoded", "foreign"}
    /\ decoded' = DecodeObject(wire)
    /\ pc' = "object_decoded"
    /\ UNCHANGED <<object, wire, tampered, narrowVars, propsVars, identityVars>>

NextCodec ==
    \/ Encode
    \/ PayloadRetagged
    \/ PayloadKeyMissing
    \/ Decode

SpecCodec == InitCodec /\ [][NextCodec]_vars

-----------------------------------------------------------------------------
(* Properties of the codec *)

OptionalKeyEmitted(key, field) == key \in DOMAIN wire <=> IsSome(field)

\* C6: decode(encode(x)) = x for every Object variant; a Page whose icon, url or
\* blocks is absent encodes without that key and decodes with the field absent,
\* and a ListResponse with next_cursor absent decodes with next_cursor absent.
C6_RoundTrip ==
    /\ (pc = "object_decoded" /\ ~tampered) => decoded = Ok(object)
    /\ (pc \in {"encoded", "object_decoded"} /\ ~tampered /\ object.kind = "Page") =>
            /\ OptionalKeyEmitted("icon", object.page.icon)
            /\ OptionalKeyEmitted("url", object.page.url)
            /\ OptionalKeyEmitted("blocks", object.page.blocks)
    /\ (pc = "object_decoded" /\ ~tampered /\ object.kind = "List"
            /\ object.list.next_cursor = None) =>
            /\ decoded.ok
            /\ decoded.value.list.next_cursor = None

C6_Witness ==
    /\ pc = "object_decoded"
    /\ ~tampered
    /\ object.kind = "Page"
    /\ object.page.icon = None /\ object.page.url = None /\ object.page.blocks = None
    /\ object.page.last_edited_time > 9
    /\ DOMAIN object.page.properties.properties = {<<1>>, <<2>>}
    /\ DOMAIN wire \cap {"icon", "url", "blocks"} = {}
    /\ decoded.ok
    /\ decoded.value.page.icon = None

TagOfKind(kind) ==
    CASE kind = "Block" -> "block"
      [] kind = "Database" -> "database"
      [] kind = "Page" -> "page"
      [] kind = "List" -> "list"
      [] kind = "User" -> "user"
      [] kind = "Error" -> "error"
      [] kind = "PropertyItem" -> "property_item"

\* C8: decoding dispatches on the key "object": a payload decodes only to the
\* variant its tag names, each of the seven tags selecting its own variant, and a
\* payload whose tag is missing or is any other value is a decode error.
C8_TagDispatch ==
    pc = "object_decoded" =>
        /\ "object" \notin DOMAIN wire => ~decoded.ok
        /\ ("object" \in DOMAIN wire /\ wire.object \notin ObjectTags) => ~decoded.ok
        /\ decoded.ok => /\ "object" \in DOMAIN wire
                         /\ wire.object = TagOfKind(decoded.value.kind)
        /\ ~tampered => /\ decoded.ok
                        /\ decoded.value.kind = object.kind

C8_Witness ==
    /\ pc = "object_decoded"
    /\ tampered
    /\ "object" \in DOMAIN wire
    /\ wire.object = "comment"
    /\ HasKeys(wire, {"id", "type"})
    /\ ~decoded.ok

-----------------------------------------------------------------------------
(* impl Properties, impl Page *)

RECURSIVE Concat(_)
Concat(strings) ==
    IF strings = <<>> THEN <<>> ELSE Head(strings) \o Concat(Tail(strings))

\* find_map over the values, in the order the map iterates: the first Title
RECURSIVE FindTitle(_, _)
FindTitle(map, order) ==
    IF order = <<>> THEN None
    ELSE IF map[Head(order)].type = "title" THEN Some(map[Head(order)].title)
    ELSE FindTitle(map, Tail(order))

\* a mutant: the lookup scans the values from the other end
Properties_title_from_back(self, order) ==
    LET found == FindTitle(self.properties,
                           [i \in DOMAIN order |-> order[Len(order) + 1 - i]])
    IN  IF IsSome(found)
        THEN Some(Concat([i \in DOMAIN Unwrap(found) |-> plain_text(Unwrap(found)[i])]))
        ELSE None

Properties_title(self, order) ==
    LET found == FindTitle(self.properties, order)
    IN  IF IsSome(found)
        THEN Some(Concat([i \in DOMAIN Unwrap(found) |-> plain_text(Unwrap(found)[i])]))
        ELSE None

Properties_title_object(self, order) == FindTitle(self.properties, order)

Page_title(self, order) == Properties_title(self.properties, order)

Page_title_object(self, order) == Properties_title_object(self.properties, order)

-----------------------------------------------------------------------------
(* Props: the property map of a Properties, or of a Database, is built by   *)
(* insertions, encoded and (for a Properties) looked up.                    *)

InitProps ==
    /\ pc \in {"properties", "database_properties"}
    /\ properties = EmptyMap
    /\ iterOrder = <<>>
    /\ encodedKeys = None
    /\ titles = None
    /\ IdleNarrow /\ IdleCodec /\ IdleIdentity

\* HashMap::insert: the entry is set and the table may iterate in any order
InsertProperty ==
    /\ pc = "properties"
    /\ \E k \in PropertyNames, v \in PropertyValues :
            properties' = (k :> v) @@ properties
    /\ iterOrder' \in IterOrders(DOMAIN properties')
    /\ encodedKeys' = None
    /\ titles' = None
    /\ UNCHANGED <<pc, narrowVars, codecVars, identityVars>>

\* HashMap::insert on the property schema of a Database
InsertConfiguration ==
    /\ pc = "database_properties"
    /\ \E k \in PropertyNames, v \in PropertyConfigurations :
            properties' = (k :> v) @@ properties
    /\ iterOrder' \in IterOrders(DOMAIN properties')
    /\ encodedKeys' = None
    /\ UNCHANGED <<pc, titles, narrowVars, codecVars, identityVars>>

\* #[serde(serialize_with = "ordered_map")] on Properties::properties and on
\* Database::properties
EncodeProperties ==
    /\ pc \in {"properties", "database_properties"}
    /\ LET entries == ordered_map(properties, iterOrder)
       IN  encodedKeys' = Some([i \in DOMAIN entries |-> entries[i][1]])
    /\ UNCHANGED <<pc, properties, iterOrder, titles, narrowVars, codecVars,
                   identityVars>>

TitleLookup ==
    /\ pc = "properties"
    /\ LET page == [SamplePage(1) EXCEPT !.properties = Properties(properties)]
       IN  titles' = Some(
            [title |-> Properties_title(Properties(properties), iterOrder),
             title_object |-> Properties_title_object(Properties(properties), iterOrder),
             page_title |-> Page_title(page, iterOrder),
             page_title_object |-> Page_title_object(page, iterOrder)])
    /\ UNCHANGED <<pc, properties, iterOrder, encodedKeys, narrowVars, codecVars,
                   identityVars>>

NextProps ==
    \/ InsertProperty
    \/ InsertConfiguration
    \/ EncodeProperties
    \/ TitleLookup

SpecProps == InitProps /\ [][NextProps]_vars

-----------------------------------------------------------------------------
(* Properties of Properties *)

Ascending(keys) == \A i \in 1..(Len(keys) - 1) : KeyLess(keys[i], keys[i + 1])

KeysOf(entries) == [i \in DOMAIN entries |-> entries[i][1]]

\* C5: an encoding of the property map emits its entries in ascending key order,
\* the same key sequence whatever order the map iterates in (whatever insertion
\* order built it), and leaves the in-memory map as it was.
C5_OrderedEncoding ==
    [][(encodedKeys' # encodedKeys /\ IsSome(encodedKeys')) =>
            LET keys == Unwrap(encodedKeys')
            IN  /\ properties' = properties
                /\ iterOrder' = iterOrder
                /\ Ascending(keys)
                /\ {keys[i] : i \in DOMAIN keys} = DOMAIN properties
                /\ Len(keys) = Cardinality(DOMAIN properties)
                /\ \A other \in IterOrders(DOMAIN properties) :
                        KeysOf(ordered_map(properties, other)) = keys]_vars

C5_Witness ==
    /\ pc = "database_properties"
    /\ iterOrder = <<(<<2>>), (<<1, 2>>), (<<1>>)>>
    /\ encodedKeys = Some(<<(<<1>>), (<<1, 2>>), (<<2>>)>>)

TitleEntries == {k \in DOMAIN properties : properties[k].type = "title"}

\* C9: with no Title entry (the empty map included) title() and title_object()
\* are both absent; with at least one both are present and title() is the
\* concatenation of the plain texts of what title_object() returns; Page::title
\* and Page::title_object return what the lookups on the page's properties do.
C9_TitleLookup ==
    IsSome(titles) =>
        LET found == Unwrap(titles)
        IN  /\ TitleEntries = {} =>
                    (found.title = None /\ found.title_object = None)
            /\ TitleEntries # {} =>
                /\ IsSome(found.title)
                /\ IsSome(found.title_object)
                /\ \E k \in TitleEntries :
                        Unwrap(found.title_object) = properties[k].title
                /\ Unwrap(found.title) =
                        Concat([i \in DOMAIN Unwrap(found.title_object) |->
                                    plain_text(Unwrap(found.title_object)[i])])
            /\ found.page_title = found.title
            /\ found.page_title_object = found.title_object

C9_Witness ==
    /\ IsSome(titles)
    /\ DOMAIN properties = {<<1>>, <<2>>}
    /\ TitleEntries = {}
    /\ Unwrap(titles).title = None
    /\ Unwrap(titles).title_object = None
    /\ Unwrap(titles).page_title = None

-----------------------------------------------------------------------------
(* Eq, PartialEq and Hash of Page and Database *)

\* Hasher::finish over the words written to the hasher
HasherFinish(written) == (SumBytes(written) * 31 + Len(written)) % 16

\* a mutant: the id is left out of the comparison
PageEq_without_id(a, b) ==
    /\ a.created_time = b.created_time
    /\ a.last_edited_time = b.last_edited_time
    /\ a.archived = b.archived
    /\ a.properties = b.properties
    /\ a.parent = b.parent
    /\ a.icon = b.icon
    /\ a.url = b.url
    /\ a.blocks = b.blocks

\* #[derive(Eq, PartialEq)] on Page: every field is compared
PageEq(a, b) ==
    /\ a.id = b.id
    /\ a.created_time = b.created_time
    /\ a.last_edited_time = b.last_edited_time
    /\ a.archived = b.archived
    /\ a.properties = b.properties
    /\ a.parent = b.parent
    /\ a.icon = b.icon
    /\ a.url = b.url
    /\ a.blocks = b.blocks

\* a mutant: the edit time is hashed too
PageHash_with_edit_time(p) == HasherFinish(<<p.id, p.last_edited_time>>)

\* impl Hash for Page: self.id.hash(state)
PageHash(p) == HasherFinish(<<p.id>>)

\* #[derive(Eq, PartialEq)] on Database: every field is compared
DatabaseEq(a, b) ==
    /\ a.id = b.id
    /\ a.created_time = b.created_time
    /\ a.last_edited_time = b.last_edited_time
    /\ a.title = b.title
    /\ a.properties = b.properties

\* impl Hash for Database: self.id.hash(state)
DatabaseHash(d) == HasherFinish(<<d.id>>)

\* A HashSet is the sequence of its entries, each stored with its hash; a lookup
\* compares the hash and then the value with ==.
PageSetContains(set, p) ==
    \E i \in DOMAIN set : set[i].hash = PageHash(p) /\ PageEq(set[i].value, p)

PageSetInsert(set, p) ==
    IF PageSetContains(set, p) THEN set
    ELSE Append(set, [hash |-> PageHash(p), value |-> p])

DatabaseSetContains(set, d) ==
    \E i \in DOMAIN set : set[i].hash = DatabaseHash(d) /\ DatabaseEq(set[i].value, d)

DatabaseSetInsert(set, d) ==
    IF DatabaseSetContains(set, d) THEN set
    ELSE Append(set, [hash |-> DatabaseHash(d), value |-> d])

-----------------------------------------------------------------------------
(* Identity: Pages, or Databases, are inserted into a hash set. *)

IdentityPages ==
    {[SamplePage(i) EXCEPT !.last_edited_time = t, !.properties = Properties(m)] :
        i \in Ids, t \in Times, m \in {EmptyMap, <<1>> :> PropertyValueNumber}}

IdentityDatabases ==
    {[SampleDatabase(i) EXCEPT !.last_edited_time = t, !.properties = m] :
        i \in Ids, t \in Times, m \in ConfigurationMaps}

InitIdentity ==
    /\ pc \in {"page_set", "database_set"}
    /\ pageSet = <<>>
    /\ databaseSet = <<>>
    /\ IdleNarrow /\ IdleCodec /\ IdleProps

InsertPage ==
    /\ pc = "page_set"
    /\ Len(pageSet) < MaxSetSize
    /\ \E p \in IdentityPages : pageSet' = PageSetInsert(pageSet, p)
    /\ UNCHANGED <<pc, databaseSet, narrowVars, codecVars, propsVars>>

InsertDatabase ==
    /\ pc = "database_set"
    /\ Len(databaseSet) < MaxSetSize
    /\ \E d \in IdentityDatabases : databaseSet' = DatabaseSetInsert(databaseSet, d)
    /\ UNCHANGED <<pc, pageSet, narrowVars, codecVars, propsVars>>

NextIdentity ==
    \/ InsertPage
    \/ InsertDatabase

SpecIdentity == InitIdentity /\ [][NextIdentity]_vars

-----------------------------------------------------------------------------
(* Properties of identity *)

C10_HashConsistentWithEq ==
    /\ \A a, b \in IdentityPages : PageEq(a, b) => PageHash(a) = PageHash(b)
    /\ \A a, b \in IdentityDatabases :
            DatabaseEq(a, b) => DatabaseHash(a) = DatabaseHash(b)
    /\ \A i \in DOMAIN pageSet : \A q \in IdentityPages :
            PageEq(pageSet[i].value, q) => PageSetContains(pageSet, q)
    /\ \A i \in DOMAIN databaseSet : \A q \in IdentityDatabases :
            DatabaseEq(databaseSet[i].value, q) => DatabaseSetContains(databaseSet, q)

C10_Witness ==
    /\ Len(pageSet) = MaxSetSize
    /\ \E i, j \in DOMAIN pageSet :
            /\ pageSet[i].value.id # pageSet[j].value.id
            /\ pageSet[i].hash # pageSet[j].hash
    /\ \A i \in DOMAIN pageSet : PageSetContains(pageSet, pageSet[i].value)

====
